---- MODULE Spec2Model ----
(***************************************************************************)
(* A model of the RayTracer core (include/*.hpp) and of the SDL canvas     *)
(* (src/sdl_renderer_advanced.cpp).                                        *)
(*                                                                         *)
(* real_t (float) is modelled by a pair <<n, d>>:                          *)
(*   finite non-zero  <<n, d>>   d > 0, gcd(|n|, d) = 1                    *)
(*   +0 / -0          <<0, 1>> / <<0, -1>>                                 *)
(*   +inf / -inf      <<1, 0>> / <<-1, 0>>                                 *)
(*   NaN              <<0, 0>>                                             *)
(* The IEEE rules for the special values are kept (x/0, 0*inf, signed      *)
(* zeros, comparisons with NaN).  A finite result whose denominator is at  *)
(* most MaxDen is kept exactly; any other result is rounded to the nearest *)
(* multiple of 1/GridDen, which stands for the rounding of the float       *)
(* format.                                                                 *)
(***************************************************************************)
EXTENDS Integers, Sequences, FiniteSets, TLC

GridDen == 256
MaxDen == 1024

Abs(i) == IF i < 0 THEN -i ELSE i
Sgn(i) == IF i < 0 THEN -1 ELSE IF i > 0 THEN 1 ELSE 0

RECURSIVE Gcd(_, _)
Gcd(a, b) == IF b = 0 THEN a ELSE Gcd(b, a % b)

NaN == <<0, 0>>
PosInf == <<1, 0>>
NegInf == <<-1, 0>>
Zero == <<0, 1>>
NegZero == <<0, -1>>
One == <<1, 1>>
Two == <<2, 1>>

IsNaN(a) == a = NaN
IsInf(a) == a[2] = 0 /\ a[1] # 0
IsZero(a) == a[1] = 0 /\ a[2] # 0
IsFinite(a) == a[2] # 0
SignOf(a) == IF a[1] # 0 THEN Sgn(a[1]) ELSE a[2]

\* n/d (lowest terms, d > 0) as a representable value
Round(n, d) ==
    IF d <= MaxDen THEN <<n, d>>
    ELSE LET q == n \div d
             r == n % d
             f == (2 * r * GridDen + d) \div (2 * d)
             m == q * GridDen + f
             g == Gcd(Abs(m), GridDen)
         IN  <<m \div g, GridDen \div g>>

\* the value n/d (d > 0); zs is the sign given to an exact zero
Mk(n, d, zs) ==
    IF n = 0 THEN <<0, zs>>
    ELSE LET g == Gcd(Abs(n), d)
             r == Round(n \div g, d \div g)
         IN  IF r[1] = 0 THEN <<0, Sgn(n)>> ELSE r

Q(n, d) == Mk(n, d, 1)
I(n) == <<n, 1>>

neg(a) == IF a[1] = 0 THEN <<0, -a[2]>> ELSE <<-a[1], a[2]>>

mul(a, b) ==
    IF IsNaN(a) \/ IsNaN(b) THEN NaN
    ELSE IF IsInf(a) \/ IsInf(b)
         THEN IF IsZero(a) \/ IsZero(b) THEN NaN
              ELSE <<SignOf(a) * SignOf(b), 0>>
    ELSE LET g1 == Gcd(Abs(a[1]), Abs(b[2]))
             g2 == Gcd(Abs(b[1]), Abs(a[2]))
         IN  IF a[1] = 0 \/ b[1] = 0 THEN <<0, SignOf(a) * SignOf(b)>>
             ELSE Mk((a[1] \div g1) * (b[1] \div g2),
                     (Abs(a[2]) \div g2) * (Abs(b[2]) \div g1), 1)

add(a, b) ==
    IF IsNaN(a) \/ IsNaN(b) THEN NaN
    ELSE IF IsInf(a) THEN (IF IsInf(b) /\ b # a THEN NaN ELSE a)
    ELSE IF IsInf(b) THEN b
    ELSE LET g == Gcd(Abs(a[2]), Abs(b[2]))
         IN  Mk(a[1] * (Abs(b[2]) \div g) + b[1] * (Abs(a[2]) \div g),
                (Abs(a[2]) \div g) * Abs(b[2]),
                IF a = NegZero /\ b = NegZero THEN -1 ELSE 1)

sub(a, b) == add(a, neg(b))

div(a, b) ==
    IF IsNaN(a) \/ IsNaN(b) THEN NaN
    ELSE IF IsInf(a) THEN (IF IsInf(b) THEN NaN ELSE <<SignOf(a) * SignOf(b), 0>>)
    ELSE IF IsInf(b) THEN <<0, SignOf(a) * SignOf(b)>>
    ELSE IF IsZero(b) THEN (IF IsZero(a) THEN NaN ELSE <<SignOf(a) * SignOf(b), 0>>)
    ELSE IF IsZero(a) THEN <<0, SignOf(a) * SignOf(b)>>
    ELSE mul(a, <<Sgn(b[1]) * b[2], Abs(b[1])>>)

eq(a, b) == ~IsNaN(a) /\ ~IsNaN(b) /\ (a = b \/ (IsZero(a) /\ IsZero(b)))

\* n1/d1 < n2/d2 for d1, d2 > 0, by the continued-fraction expansion
RECURSIVE LtFrac(_, _, _, _)
LtFrac(n1, d1, n2, d2) ==
    IF n1 \div d1 # n2 \div d2 THEN n1 \div d1 < n2 \div d2
    ELSE IF n2 % d2 = 0 THEN FALSE
    ELSE IF n1 % d1 = 0 THEN TRUE
    ELSE LtFrac(d2, n2 % d2, d1, n1 % d1)

\* std::numeric_limits<real_t>::max(): above every finite value of the model
FLT_MAX == <<2, 0>>

lt(a, b) ==
    IF IsNaN(a) \/ IsNaN(b) \/ a = b THEN FALSE
    ELSE IF b = FLT_MAX THEN a # PosInf
    ELSE IF a = FLT_MAX THEN b = PosInf
    ELSE IF IsInf(a) THEN a = NegInf
    ELSE IF IsInf(b) THEN b = PosInf
    ELSE LtFrac(a[1], Abs(a[2]), b[1], Abs(b[2]))

gt(a, b) == lt(b, a)
le(a, b) == lt(a, b) \/ eq(a, b)
ge(a, b) == le(b, a)

\* std::abs
fabs(a) == IF a[1] = 0 THEN <<0, Abs(a[2])>> ELSE <<Abs(a[1]), a[2]>>

\* the largest i in lo..hi with i*i <= n
RECURSIVE ISqrtB(_, _, _)
ISqrtB(n, lo, hi) ==
    IF lo >= hi THEN lo
    ELSE LET mid == (lo + hi + 1) \div 2
         IN  IF mid * mid <= n THEN ISqrtB(n, mid, hi) ELSE ISqrtB(n, lo, mid - 1)

ISqrt(n) == ISqrtB(n, 0, IF n < 46340 THEN n ELSE 46340)

sqrt(val) ==
    IF IsNaN(val) THEN NaN
    ELSE IF IsZero(val) THEN val
    ELSE IF SignOf(val) < 0 THEN NaN
    ELSE IF IsInf(val) THEN PosInf
    ELSE LET n == val[1]
             d == val[2]
             sn == ISqrt(n)
             sd == ISqrt(d)
             w == (n \div d) * GridDen * GridDen + ((n % d) * GridDen * GridDen) \div d
         IN  IF sn * sn = n /\ sd * sd = d THEN <<sn, sd>>
             ELSE Mk(ISqrt(w), GridDen, 1)

\* the loop "while (iexp-- > 0) val *= base": its first iexp \div 2 turns
\* and then the others; a NaN stays a NaN
RECURSIVE pow_loop(_, _, _)
pow_loop(val, base, iexp) ==
    IF iexp <= 0 \/ IsNaN(val) THEN val
    ELSE IF iexp = 1 THEN mul(val, base)
    ELSE pow_loop(pow_loop(val, base, iexp \div 2), base, iexp - iexp \div 2)

pow(base, iexp) == pow_loop(One, base, iexp)

(***************************************************************************)
(* vec3 and color                                                          *)
(***************************************************************************)
vec3(x, y, z) == [x |-> x, y |-> y, z |-> z]
V(x, y, z) == vec3(I(x), I(y), I(z))

scale(k, v) == vec3(mul(k, v.x), mul(k, v.y), mul(k, v.z))
vsub(v1, v2) == vec3(sub(v1.x, v2.x), sub(v1.y, v2.y), sub(v1.z, v2.z))
vadd(v1, v2) == vec3(add(v1.x, v2.x), add(v1.y, v2.y), add(v1.z, v2.z))
dot(v1, v2) == add(add(mul(v1.x, v2.x), mul(v1.y, v2.y)), mul(v1.z, v2.z))
mag(v) == sqrt(dot(v, v))
norm(v) == scale(div(One, mag(v)), v)
cross(v1, v2) ==
    vec3(sub(mul(v1.y, v2.z), mul(v1.z, v2.y)),
         sub(mul(v1.z, v2.x), mul(v1.x, v2.z)),
         sub(mul(v1.x, v2.y), mul(v1.y, v2.x)))

veq(v1, v2) == eq(v1.x, v2.x) /\ eq(v1.y, v2.y) /\ eq(v1.z, v2.z)

color(r, g, b) == [r |-> r, g |-> g, b |-> b]
white == color(One, One, One)
grey == color(Q(1, 2), Q(1, 2), Q(1, 2))
black == color(Zero, Zero, Zero)
background == black
default_color == black

cscale(k, v) == color(mul(k, v.r), mul(k, v.g), mul(k, v.b))
cadd(v1, v2) == color(add(v1.r, v2.r), add(v1.g, v2.g), add(v1.b, v2.b))
cmul(v1, v2) == color(mul(v1.r, v2.r), mul(v1.g, v2.g), mul(v1.b, v2.b))

(***************************************************************************)
(* transform: m, inv are 4x4 row-major, inv_t is 3x3 row-major; the source *)
(* index i is the index i + 1 here.                                        *)
(***************************************************************************)
At(a, i) == a[i + 1]

identity ==
    [m |-> [i \in 1..16 |-> IF i \in {1, 6, 11, 16} THEN One ELSE Zero],
     inv |-> [i \in 1..16 |-> IF i \in {1, 6, 11, 16} THEN One ELSE Zero],
     inv_t |-> [i \in 1..9 |-> IF i \in {1, 5, 9} THEN One ELSE Zero]]

\* a[i] = v for every <<i, v>> of the sequence upd, in order
RECURSIVE Assign(_, _)
Assign(a, upd) ==
    IF upd = <<>> THEN a
    ELSE Assign([a EXCEPT ![Head(upd)[1] + 1] = Head(upd)[2]], Tail(upd))

Apply4(a, p, w) ==
    vec3(add(add(add(mul(At(a, 0), p.x), mul(At(a, 1), p.y)), mul(At(a, 2), p.z)), w[1]),
         add(add(add(mul(At(a, 4), p.x), mul(At(a, 5), p.y)), mul(At(a, 6), p.z)), w[2]),
         add(add(add(mul(At(a, 8), p.x), mul(At(a, 9), p.y)), mul(At(a, 10), p.z)), w[3]))

Apply3(a, v) ==
    vec3(add(add(mul(At(a, 0), v.x), mul(At(a, 1), v.y)), mul(At(a, 2), v.z)),
         add(add(mul(At(a, 4), v.x), mul(At(a, 5), v.y)), mul(At(a, 6), v.z)),
         add(add(mul(At(a, 8), v.x), mul(At(a, 9), v.y)), mul(At(a, 10), v.z)))

point(T, p) == Apply4(T.m, p, <<At(T.m, 3), At(T.m, 7), At(T.m, 11)>>)
vector(T, v) == Apply3(T.m, v)
inv_point(T, p) == Apply4(T.inv, p, <<At(T.inv, 3), At(T.inv, 7), At(T.inv, 11)>>)
inv_vector(T, v) == Apply3(T.inv, v)

normal(T, n) ==
    norm(vec3(add(add(mul(At(T.inv_t, 0), n.x), mul(At(T.inv_t, 1), n.y)), mul(At(T.inv_t, 2), n.z)),
              add(add(mul(At(T.inv_t, 3), n.x), mul(At(T.inv_t, 4), n.y)), mul(At(T.inv_t, 5), n.z)),
              add(add(mul(At(T.inv_t, 6), n.x), mul(At(T.inv_t, 7), n.y)), mul(At(T.inv_t, 8), n.z))))

translate(x, y, z) ==
    [identity EXCEPT
        !.m = Assign(@, <<<<3, x>>, <<7, y>>, <<11, z>>>>),
        !.inv = Assign(@, <<<<3, neg(x)>>, <<7, neg(y)>>, <<11, neg(z)>>>>)]

transform_scale(sx, sy, sz) ==
    [m |-> Assign(identity.m, <<<<0, sx>>, <<5, sy>>, <<10, sz>>>>),
     inv |-> Assign(identity.inv,
                    <<<<0, div(One, sx)>>, <<5, div(One, sy)>>, <<10, div(One, sz)>>>>),
     inv_t |-> Assign(identity.inv_t,
                      <<<<0, div(One, sx)>>, <<4, div(One, sy)>>, <<8, div(One, sz)>>>>)]

\* std::cos and std::sin: an angle of the model is named by the pair
\* <<cos, sin>> of its exact values
cos(radians) == radians[1]
sin(radians) == radians[2]

rotate_y(radians) ==
    LET c == cos(radians)
        s == sin(radians)
    IN  [m |-> Assign(identity.m, <<<<0, c>>, <<2, s>>, <<8, neg(s)>>, <<10, c>>>>),
         inv |-> Assign(identity.inv, <<<<0, c>>, <<2, neg(s)>>, <<8, s>>, <<10, c>>>>),
         inv_t |-> Assign(identity.inv_t, <<<<0, c>>, <<2, neg(s)>>, <<6, s>>, <<8, c>>>>)]

\* result[..] = 0; for k in 0..n-1: result[..] += term[k]
RECURSIVE Accum(_, _)
Accum(term, n) ==
    IF n = 0 THEN Zero ELSE add(Accum(term, n - 1), term[n - 1])

\* compose with the inverses multiplied in the order of the forward matrices
compose_inverse_swapped(first, second) ==
    [m |-> [i \in 1..16 |->
               LET row == (i - 1) \div 4
                   col == (i - 1) % 4
                   t == [k \in 0..3 |-> mul(At(second.m, row * 4 + k), At(first.m, k * 4 + col))]
               IN  Accum(t, 4)],
     inv |-> [i \in 1..16 |->
               LET row == (i - 1) \div 4
                   col == (i - 1) % 4
                   t == [k \in 0..3 |-> mul(At(second.inv, row * 4 + k), At(first.inv, k * 4 + col))]
               IN  Accum(t, 4)],
     inv_t |-> identity.inv_t]

compose(first, second) ==
    [m |-> [i \in 1..16 |->
               LET row == (i - 1) \div 4
                   col == (i - 1) % 4
                   t == [k \in 0..3 |-> mul(At(second.m, row * 4 + k), At(first.m, k * 4 + col))]
               IN  Accum(t, 4)],
     inv |-> [i \in 1..16 |->
               LET row == (i - 1) \div 4
                   col == (i - 1) % 4
                   t == [k \in 0..3 |-> mul(At(first.inv, row * 4 + k), At(second.inv, k * 4 + col))]
               IN  Accum(t, 4)],
     inv_t |-> [i \in 1..9 |->
               LET row == (i - 1) \div 3
                   col == (i - 1) % 3
                   t == [k \in 0..2 |-> mul(At(first.inv, k * 4 + row), At(second.inv, col * 4 + k))]
               IN  Accum(t, 3)]]

(***************************************************************************)
(* The build: libstdc++ without clang defines HAVE_CONSTEXPR_STD_MATH and  *)
(* cmath::floor is std::floor; any other build takes the cast.             *)
(***************************************************************************)
VARIABLE HAVE_CONSTEXPR_STD_MATH

\* static_cast of a finite real_t to an integer type: truncation
to_int(a) ==
    CASE IsFinite(a) -> IF a[1] >= 0 THEN a[1] \div Abs(a[2])
                        ELSE -((-a[1]) \div Abs(a[2]))

floor(val) ==
    IF HAVE_CONSTEXPR_STD_MATH
    THEN (IF IsFinite(val) /\ ~IsZero(val) THEN Mk(val[1] \div val[2], 1, SignOf(val)) ELSE val)
    ELSE I(to_int(IF ge(val, Zero) THEN val ELSE sub(val, One)))

\* the % of C++ on int: the result has the sign of the dividend
c_rem(a, b) == IF a >= 0 THEN a % b ELSE -((-a) % b)

(***************************************************************************)
(* surface: the function pointers are named; [fn |-> "const"] is a         *)
(* caller-supplied function that returns val at every point.               *)
(***************************************************************************)
shiny_diffuse(pos) == white
shiny_specular(pos) == grey
shiny_reflect(pos) == Q(7, 10)

checkerboard_diffuse(pos) ==
    IF c_rem(to_int(floor(pos.z)) + to_int(floor(pos.x)), 2) # 0 THEN white ELSE black

checkerboard_specular(pos) == white

checkerboard_reflect(pos) ==
    IF c_rem(to_int(floor(pos.z)) + to_int(floor(pos.x)), 2) # 0 THEN Q(1, 10) ELSE Q(7, 10)

Fn(name) == [fn |-> name, val |-> Zero]
Const(v) == [fn |-> "const", val |-> v]

surface(d, s, r, rough) == [diffuse |-> d, specular |-> s, reflect |-> r, roughness |-> rough]
shiny == surface(Fn("shiny_diffuse"), Fn("shiny_specular"), Fn("shiny_reflect"), 100)
checkerboard ==
    surface(Fn("checkerboard_diffuse"), Fn("checkerboard_specular"), Fn("checkerboard_reflect"), 1)

\* a call through one of the function pointers of a surface
call(f, pos) ==
    CASE f.fn = "shiny_diffuse" -> shiny_diffuse(pos)
      [] f.fn = "shiny_specular" -> shiny_specular(pos)
      [] f.fn = "shiny_reflect" -> shiny_reflect(pos)
      [] f.fn = "checkerboard_diffuse" -> checkerboard_diffuse(pos)
      [] f.fn = "checkerboard_specular" -> checkerboard_specular(pos)
      [] f.fn = "checkerboard_reflect" -> checkerboard_reflect(pos)
      [] f.fn = "const" -> f.val

(***************************************************************************)
(* ray, intersection, sphere, plane, any_thing.  thing_ is the index of    *)
(* the any_thing in the scene's vector, 0 for nullptr.  A function body is *)
(* written as a chain of operators, one for each local variable of the     *)
(* source: "f_v(.., v)" is the rest of the body of f once the local v has  *)
(* its value, so the chain of f reads from its last statement to its first.*)
(***************************************************************************)
ray(start, dir) == [start |-> start, dir |-> dir]

nullopt == [has |-> FALSE]
intersection(thing_, ray_, dist) ==
    [has |-> TRUE, thing_ |-> thing_, ray_ |-> ray_, dist |-> dist]

make_sphere(center, radius, surf) ==
    [kind |-> "sphere", center |-> center, radius |-> radius, norm |-> V(0, 0, 0),
     offset |-> Zero, surf |-> surf, xform |-> identity, use_transform |-> FALSE]

make_transformed_sphere(surf, xform) ==
    [kind |-> "sphere", center |-> V(0, 0, 0), radius |-> One, norm |-> V(0, 0, 0),
     offset |-> Zero, surf |-> surf, xform |-> xform, use_transform |-> TRUE]

make_plane(normal_, offset, surf) ==
    [kind |-> "plane", center |-> V(0, 0, 0), radius |-> Zero, norm |-> normal_,
     offset |-> offset, surf |-> surf, xform |-> identity, use_transform |-> FALSE]

make_transformed_plane(surf, xform) ==
    [kind |-> "plane", center |-> V(0, 0, 0), radius |-> Zero, norm |-> V(0, 1, 0),
     offset |-> Zero, surf |-> surf, xform |-> xform, use_transform |-> TRUE]

EPS6 == <<1, 1000000>>
EPS9 == <<1, 1000000000>>

\* sphere::intersect_original
sphere_intersect_original_dist(ray_, dist) ==
    IF lt(dist, Zero) THEN nullopt ELSE intersection(0, ray_, dist)

\* the far root v + sqrt(disc) in the place of the near one
sphere_intersect_original_exit(ray_, v, disc) ==
    IF lt(disc, Zero) THEN nullopt
    ELSE sphere_intersect_original_dist(ray_, add(v, sqrt(disc)))

sphere_intersect_original_disc(ray_, v, disc) ==
    IF lt(disc, Zero) THEN nullopt
    ELSE sphere_intersect_original_dist(ray_, sub(v, sqrt(disc)))

sphere_intersect_original_v(s, ray_, eo, v) ==
    IF lt(v, Zero) THEN nullopt
    ELSE sphere_intersect_original_disc(ray_, v,
             sub(mul(s.radius, s.radius), sub(dot(eo, eo), mul(v, v))))

sphere_intersect_original_eo(s, ray_, eo) ==
    sphere_intersect_original_v(s, ray_, eo, dot(eo, ray_.dir))

sphere_intersect_original(s, ray_) ==
    sphere_intersect_original_eo(s, ray_, vsub(s.center, ray_.start))

\* the object-space ray of intersect_transformed (sphere and plane)
obj_ray_scale_factor(obj_origin, obj_dir_unnorm, scale_factor) ==
    ray(obj_origin, scale(div(One, scale_factor), obj_dir_unnorm))

\* sphere::intersect_transformed
sphere_intersect_transformed_t(world_ray, scale_factor, t) ==
    intersection(0, world_ray, div(t, scale_factor))

\* the larger root t2 tried before t1
sphere_intersect_transformed_t2_first(world_ray, scale_factor, t1, t2) ==
    IF gt(t2, EPS6) THEN sphere_intersect_transformed_t(world_ray, scale_factor, t2)
    ELSE IF gt(t1, EPS6) THEN sphere_intersect_transformed_t(world_ray, scale_factor, t1)
    ELSE nullopt

sphere_intersect_transformed_t1(world_ray, scale_factor, t1, t2) ==
    IF gt(t1, EPS6) THEN sphere_intersect_transformed_t(world_ray, scale_factor, t1)
    ELSE IF gt(t2, EPS6) THEN sphere_intersect_transformed_t(world_ray, scale_factor, t2)
    ELSE nullopt

sphere_intersect_transformed_sqrt_d(world_ray, scale_factor, a, b, sqrt_d) ==
    sphere_intersect_transformed_t1(world_ray, scale_factor,
        div(sub(neg(b), sqrt_d), mul(Two, a)),
        div(add(neg(b), sqrt_d), mul(Two, a)))

sphere_intersect_transformed_discriminant(world_ray, scale_factor, a, b, discriminant) ==
    IF lt(discriminant, Zero) THEN nullopt
    ELSE sphere_intersect_transformed_sqrt_d(world_ray, scale_factor, a, b, sqrt(discriminant))

sphere_intersect_transformed_a(world_ray, scale_factor, a, b, c) ==
    sphere_intersect_transformed_discriminant(world_ray, scale_factor, a, b,
        sub(mul(b, b), mul(mul(I(4), a), c)))

sphere_intersect_transformed_obj_ray(world_ray, scale_factor, obj_ray) ==
    sphere_intersect_transformed_a(world_ray, scale_factor,
        dot(obj_ray.dir, obj_ray.dir),
        mul(Two, dot(obj_ray.start, obj_ray.dir)),
        sub(dot(obj_ray.start, obj_ray.start), One))

sphere_intersect_transformed_scale_factor(world_ray, obj_origin, obj_dir_unnorm, scale_factor) ==
    sphere_intersect_transformed_obj_ray(world_ray, scale_factor,
        obj_ray_scale_factor(obj_origin, obj_dir_unnorm, scale_factor))

sphere_intersect_transformed_obj_origin(world_ray, obj_origin, obj_dir_unnorm) ==
    sphere_intersect_transformed_scale_factor(world_ray, obj_origin, obj_dir_unnorm,
        mag(obj_dir_unnorm))

sphere_intersect_transformed(s, world_ray) ==
    sphere_intersect_transformed_obj_origin(world_ray,
        inv_point(s.xform, world_ray.start), inv_vector(s.xform, world_ray.dir))

sphere_intersect(s, ray_) ==
    IF s.use_transform THEN sphere_intersect_transformed(s, ray_)
    ELSE sphere_intersect_original(s, ray_)

sphere_get_normal(s, pos) ==
    IF s.use_transform
    THEN normal(s.xform, norm(inv_point(s.xform, pos)))
    ELSE norm(vsub(pos, s.center))

\* plane::intersect_original
plane_intersect_original_denom(p, ray_, denom) ==
    IF gt(denom, Zero) THEN nullopt
    ELSE intersection(0, ray_, div(add(dot(p.norm, ray_.start), p.offset), neg(denom)))

plane_intersect_original(p, ray_) ==
    plane_intersect_original_denom(p, ray_, dot(p.norm, ray_.dir))

\* plane::intersect_transformed
plane_intersect_transformed_t(world_ray, scale_factor, t) ==
    IF le(t, EPS6) THEN nullopt ELSE intersection(0, world_ray, div(t, scale_factor))

plane_intersect_transformed_obj_ray(world_ray, scale_factor, obj_ray) ==
    IF lt(fabs(obj_ray.dir.y), EPS9) THEN nullopt
    ELSE plane_intersect_transformed_t(world_ray, scale_factor,
             div(neg(obj_ray.start.y), obj_ray.dir.y))

plane_intersect_transformed_scale_factor(world_ray, obj_origin, obj_dir_unnorm, scale_factor) ==
    plane_intersect_transformed_obj_ray(world_ray, scale_factor,
        obj_ray_scale_factor(obj_origin, obj_dir_unnorm, scale_factor))

plane_intersect_transformed_obj_origin(world_ray, obj_origin, obj_dir_unnorm) ==
    plane_intersect_transformed_scale_factor(world_ray, obj_origin, obj_dir_unnorm,
        mag(obj_dir_unnorm))

plane_intersect_transformed(p, world_ray) ==
    plane_intersect_transformed_obj_origin(world_ray,
        inv_point(p.xform, world_ray.start), inv_vector(p.xform, world_ray.dir))

plane_intersect(p, ray_) ==
    IF p.use_transform THEN plane_intersect_transformed(p, ray_)
    ELSE plane_intersect_original(p, ray_)

plane_get_normal(p, pos) ==
    IF p.use_transform THEN normal(p.xform, V(0, 1, 0)) ELSE p.norm

\* any_thing::intersect called on the element this_ of the scene's vector
any_thing_intersect_result(this_, result) ==
    IF result.has THEN [result EXCEPT !.thing_ = this_] ELSE result

any_thing_visit(t, ray_) ==
    IF t.kind = "sphere" THEN sphere_intersect(t, ray_) ELSE plane_intersect(t, ray_)

any_thing_intersect(things, this_, ray_) ==
    any_thing_intersect_result(this_, any_thing_visit(things[this_], ray_))

get_normal(t, pos) ==
    IF t.kind = "sphere" THEN sphere_get_normal(t, pos) ELSE plane_get_normal(t, pos)

get_surface(t) == t.surf

(***************************************************************************)
(* ray_tracer                                                              *)
(***************************************************************************)
max_depth == 5

\* the body of the loop of get_intersections: closest is
\* <<closest_inter, closest_dist>>
get_intersections_inter(closest, inter) ==
    IF inter.has /\ lt(inter.dist, closest[2]) THEN <<inter, inter.dist>> ELSE closest

\* the loop of get_intersections over the first n things
RECURSIVE closest_scan(_, _, _)
closest_scan(ray_, things, n) ==
    IF n = 0 THEN <<nullopt, FLT_MAX>>
    ELSE get_intersections_inter(closest_scan(ray_, things, n - 1),
                                 any_thing_intersect(things, n, ray_))

get_intersections(ray_, scene_) == closest_scan(ray_, scene_.things, Len(scene_.things))[1]

test_ray_isect(isect_) ==
    IF isect_.has THEN [has |-> TRUE, dist |-> isect_.dist] ELSE nullopt

test_ray(ray_, scene_) == test_ray_isect(get_intersections(ray_, scene_))

light(pos, col) == [pos |-> pos, col |-> col]

\* camera::camera
camera_right(pos, forward, right) ==
    [pos |-> pos, forward |-> forward, right |-> right,
     up |-> scale(Q(3, 2), norm(cross(forward, right)))]

camera_forward(pos, forward) ==
    camera_right(pos, forward, scale(Q(3, 2), norm(cross(forward, V(0, -1, 0)))))

camera(pos, look_at) == camera_forward(pos, norm(vsub(look_at, pos)))

\* add_light
add_light_scolor(pos, col, surf, lcolor, scolor) ==
    cadd(cadd(col, cmul(call(surf.diffuse, pos), lcolor)),
         cmul(call(surf.specular, pos), scolor))

add_light_specular(pos, col, light_, surf, lcolor, specular) ==
    add_light_scolor(pos, col, surf, lcolor,
        IF gt(specular, Zero) THEN cscale(pow(specular, surf.roughness), light_.col)
        ELSE default_color)

add_light_illum(thing, pos, rd, col, light_, livec, illum) ==
    add_light_specular(pos, col, light_, get_surface(thing),
        IF gt(illum, Zero) THEN cscale(illum, light_.col) ELSE default_color,
        dot(livec, norm(rd)))

add_light_is_in_shadow(thing, pos, normal_, rd, col, light_, livec, is_in_shadow) ==
    IF is_in_shadow THEN col
    ELSE add_light_illum(thing, pos, rd, col, light_, livec, dot(livec, normal_))

add_light_near_isect(thing, pos, normal_, rd, col, light_, ldis, livec, near_isect) ==
    add_light_is_in_shadow(thing, pos, normal_, rd, col, light_, livec,
        IF near_isect.has THEN lt(near_isect.dist, mag(ldis)) ELSE FALSE)

add_light_livec(thing, pos, normal_, rd, scene_, col, light_, ldis, livec) ==
    add_light_near_isect(thing, pos, normal_, rd, col, light_, ldis, livec,
        test_ray(ray(pos, livec), scene_))

add_light_ldis(thing, pos, normal_, rd, scene_, col, light_, ldis) ==
    add_light_livec(thing, pos, normal_, rd, scene_, col, light_, ldis, norm(ldis))

add_light(thing, pos, normal_, rd, scene_, col, light_) ==
    add_light_ldis(thing, pos, normal_, rd, scene_, col, light_, vsub(light_.pos, pos))

\* the loop of get_natural_color over the first n lights
RECURSIVE natural_scan(_, _, _, _, _, _)
natural_scan(thing, pos, norm_, rd, scene_, n) ==
    IF n = 0 THEN default_color
    ELSE add_light(thing, pos, norm_, rd, scene_,
                   natural_scan(thing, pos, norm_, rd, scene_, n - 1), scene_.lights[n])

get_natural_color(thing, pos, norm_, rd, scene_) ==
    natural_scan(thing, pos, norm_, rd, scene_, Len(scene_.lights))

\* shade: the locals d, pos, normal and reflect_dir
shade_reflect_dir(thing, pos, normal_, reflect_dir) ==
    [thing |-> thing, pos |-> pos, normal |-> normal_, reflect_dir |-> reflect_dir]

shade_normal(thing, d, pos, normal_) ==
    shade_reflect_dir(thing, pos, normal_,
        vsub(d, scale(Two, scale(dot(normal_, d), normal_))))

shade_pos(thing, d, pos) == shade_normal(thing, d, pos, get_normal(thing, pos))

shade_d(isect_, scene_, d) ==
    shade_pos(scene_.things[isect_.thing_], d,
              vadd(scale(isect_.dist, d), isect_.ray_.start))

shade_locals(isect_, scene_) == shade_d(isect_, scene_, isect_.ray_.dir)

\* shade: the local natural_color
shade_natural_color(locals, scene_) ==
    cadd(background,
         get_natural_color(locals.thing, locals.pos, locals.normal, locals.reflect_dir, scene_))

\* the test "depth > max_depth" in the place of "depth >= max_depth"
shade_recurses_late(depth_) == ~(depth_ > max_depth)

\* "depth >= max_depth ? color::grey() : get_reflection_color(...)"
shade_recurses(depth_) == ~(depth_ >= max_depth)

get_point_recenter(recenterX, recenterY, cam) ==
    norm(vadd(cam.forward, vadd(scale(recenterX, cam.right), scale(recenterY, cam.up))))

get_point(width_, height_, x_, y_, cam) ==
    get_point_recenter(div(div(sub(I(x_), div(I(width_), Two)), Two), I(width_)),
                       div(div(neg(sub(I(y_), div(I(height_), Two))), Two), I(height_)),
                       cam)

\* trace_ray, shade and get_reflection_color as one recursive function
RECURSIVE trace_ray(_, _, _)
shade(isect_, scene_, depth_, locals) ==
    cadd(shade_natural_color(locals, scene_),
         IF shade_recurses(depth_)
         THEN cscale(call(get_surface(locals.thing).reflect, locals.pos),
                     trace_ray(ray(locals.pos, locals.reflect_dir), scene_, depth_ + 1))
         ELSE grey)

trace_ray_isect(isect_, scene_, depth_) ==
    IF isect_.has THEN shade(isect_, scene_, depth_, shade_locals(isect_, scene_))
    ELSE background

trace_ray(ray__, scene_, depth_) == trace_ray_isect(get_intersections(ray__, scene_), scene_, depth_)

\* sdl_scene of sdl_renderer_advanced.cpp
sdl_scene ==
    [things |-> <<make_plane(V(0, 1, 0), Zero, checkerboard),
                  make_sphere(vec3(Zero, One, Q(-1, 4)), One, shiny),
                  make_sphere(vec3(I(-1), Q(1, 2), Q(3, 2)), Q(1, 2), shiny)>>,
     lights |-> <<light(vec3(I(-2), Q(5, 2), Zero), color(Q(49, 100), Q(7, 100), Q(7, 100))),
                  light(vec3(Q(3, 2), Q(5, 2), Q(3, 2)), color(Q(7, 100), Q(7, 100), Q(49, 100))),
                  light(vec3(Q(3, 2), Q(5, 2), Q(-3, 2)), color(Q(7, 100), Q(49, 100), Q(71, 1000))),
                  light(vec3(Zero, Q(7, 2), Zero), color(Q(21, 100), Q(21, 100), Q(35, 100)))>>,
     cam |-> camera(V(3, 2, 4), vec3(I(-1), Q(1, 2), Zero))]

(***************************************************************************)
(* sdl_canvas: a pixel is the four bytes <<r, g, b, a>> of the RGBA8888    *)
(* word (r << 24) | (g << 16) | (b << 8) | 0xFF.                           *)
(***************************************************************************)
sdl_canvas(width, height) ==
    [pixels_ |-> [i \in 1..(width * height) |-> <<0, 0, 0, 0>>],
     width_ |-> width, height_ |-> height]

clamp(val) == IF lt(val, Zero) THEN Zero ELSE IF lt(One, val) THEN One ELSE val

to_uint8(val) == to_int(mul(clamp(val), I(255))) % 256

\* the range test with "<=" in the place of "<"
in_range_inclusive(canvas_, x_, y_) ==
    x_ >= 0 /\ x_ <= canvas_.width_ /\ y_ >= 0 /\ y_ <= canvas_.height_

in_range(canvas_, x_, y_) ==
    x_ >= 0 /\ x_ < canvas_.width_ /\ y_ >= 0 /\ y_ < canvas_.height_

set_pixel(canvas_, x_, y_, col) ==
    IF in_range(canvas_, x_, y_)
    THEN [canvas_ EXCEPT !.pixels_[x_ + canvas_.width_ * y_ + 1] =
                             <<to_uint8(col.r), to_uint8(col.g), to_uint8(col.b), 255>>]
    ELSE canvas_

(***************************************************************************)
(* State                                                                   *)
(***************************************************************************)
VARIABLES
    scene,      \* the scene: things, lights, cam
    ray_,       \* the argument ray_ of trace_ray, get_intersections, intersect
    isect,      \* the std::optional<intersection> returned last
    pc,         \* the position of the thread
    canvas,     \* the sdl_canvas
    width,      \* render_width
    height,     \* render_height
    x,          \* render: the loop variable x; set_pixel: the argument x
    y,          \* render: the loop variable y; set_pixel: the argument y
    depth,      \* trace_ray / shade: the argument depth
    stack,      \* the frames of shade that wait for get_reflection_color
    retval,     \* the colour returned last
    calls,      \* the calls canvas.set_pixel(x, y, color) made so far
    pos,        \* the argument pos of a surface function, p of a transform
    refl,       \* the real_t returned by the reflect function
    first,      \* the transform built so far
    back,       \* the vec3 returned by inv_point or inv_vector
    composed,   \* the number of calls of compose made
    this_,      \* the index of the any_thing whose intersect was called
    li,         \* get_natural_color: the number of lights added
    col,        \* add_light: the argument col
    occluder    \* the any_thing taken out of the scene, if any

vars == <<HAVE_CONSTEXPR_STD_MATH, scene, ray_, isect, pc, canvas, width, height, x, y,
          depth, stack, retval, calls, pos, refl, first, back, composed, this_, li, col,
          occluder>>

scene_vars == <<scene, ray_, isect>>
render_vars == <<canvas, width, height, x, y, depth, stack, calls>>
surface_vars == <<pos, refl>>
xform_vars == <<first, back, composed>>
light_vars == <<this_, li, col, occluder>>

MaxWidth == 2
MaxHeight == 2

\* a surface that reflects everything and has no colour of its own
mirror == surface(Const(black), Const(black), Const(One), 1)

\* two parallel mirror planes y = 0 and y = 2 that face each other, one light
mirror_scene ==
    [things |-> <<make_plane(V(0, 1, 0), Zero, mirror),
                  make_plane(V(0, -1, 0), Two, mirror)>>,
     lights |-> <<light(V(0, 1, 0), white)>>,
     cam |-> camera(V(0, 1, 4), V(0, 1, 0))]

\* a sphere in transformed mode in front of a plane in direct mode
mixed_scene ==
    [things |-> <<make_transformed_sphere(surface(Const(white), Const(grey), Const(Q(1, 2)), 1),
                                          translate(Zero, One, Zero)),
                  make_plane(V(0, 0, 1), I(4), mirror)>>,
     lights |-> <<light(V(0, 4, 4), white)>>,
     cam |-> camera(V(0, 1, 4), V(0, 1, 0))]

RenderScenes == {sdl_scene, mirror_scene, mixed_scene}

no_ray == ray(V(0, 0, 0), V(0, 0, 0))

\* a scene with no thing and no light
no_scene == [things |-> <<>>, lights |-> <<>>, cam |-> camera(V(0, 0, 1), V(0, 0, 0))]

\* the parts of the state that a run leaves alone
IdleScene == scene = no_scene /\ ray_ = no_ray /\ isect = nullopt
IdleSurface == pos = V(0, 0, 0) /\ refl = Zero
IdleXform == first = identity /\ back = V(0, 0, 0) /\ composed = 0
IdleLight == this_ = 0 /\ li = 0 /\ col = black /\ occluder = nullopt
IdleRender ==
    /\ width = 1
    /\ height = 1
    /\ canvas = sdl_canvas(1, 1)
    /\ x = 0
    /\ y = 0
    /\ depth = 0
    /\ stack = <<>>
    /\ calls = <<>>

\* the state of a thread that has not called render
InitRenderVars ==
    /\ width \in 1..MaxWidth
    /\ height \in 1..MaxHeight
    /\ canvas = sdl_canvas(width, height)
    /\ x = 0
    /\ y = 0
    /\ depth = 0
    /\ stack = <<>>
    /\ calls = <<>>

InitRender ==
    /\ HAVE_CONSTEXPR_STD_MATH \in BOOLEAN
    /\ scene \in RenderScenes
    /\ InitRenderVars
    /\ pc = "render"
    /\ ray_ = no_ray
    /\ isect = nullopt
    /\ retval = black
    /\ IdleSurface /\ IdleXform /\ IdleLight

\* render: the loop test and the call trace_ray({cam.pos, point}, scene, 0)
Render ==
    /\ pc = "render"
    /\ IF y < height
       THEN /\ pc' = "trace_ray"
            /\ ray_' = ray(scene.cam.pos, get_point(width, height, x, y, scene.cam))
            /\ depth' = 0
       ELSE /\ pc' = "done"
            /\ UNCHANGED <<ray_, depth>>
    /\ UNCHANGED <<surface_vars, xform_vars, light_vars>>
    /\ UNCHANGED <<HAVE_CONSTEXPR_STD_MATH, scene, canvas, width, height, x, y, isect,
                   stack, retval, calls>>

\* trace_ray that records the hit in the scene: the thing that was hit
\* changes its mode flag
TraceRay_switches_mode ==
    /\ pc = "trace_ray"
    /\ \E i \in {get_intersections(ray_, scene)} :
           IF i.has
           THEN /\ isect' = i
                /\ pc' = "shade"
                /\ scene' = [scene EXCEPT !.things[i.thing_].use_transform = ~@]
                /\ UNCHANGED retval
           ELSE /\ retval' = background
                /\ pc' = "return"
                /\ UNCHANGED <<isect, scene>>
    /\ UNCHANGED <<surface_vars, xform_vars, light_vars>>
    /\ UNCHANGED <<HAVE_CONSTEXPR_STD_MATH, ray_, render_vars>>

\* trace_ray: shade the closest intersection or return the background
TraceRay ==
    /\ pc = "trace_ray"
    /\ \E i \in {get_intersections(ray_, scene)} :
           IF i.has
           THEN /\ isect' = i
                /\ pc' = "shade"
                /\ UNCHANGED retval
           ELSE /\ retval' = background
                /\ pc' = "return"
                /\ UNCHANGED isect
    /\ UNCHANGED <<surface_vars, xform_vars, light_vars>>
    /\ UNCHANGED <<HAVE_CONSTEXPR_STD_MATH, scene, ray_, render_vars>>

\* shade: the natural colour, then the grey placeholder or the call
\* trace_ray({pos, rd}, scene, depth + 1) of get_reflection_color
Shade ==
    /\ pc = "shade"
    /\ \E l \in {shade_locals(isect, scene)} :
           IF shade_recurses(depth)
           THEN /\ stack' = Append(stack,
                        [natural_color |-> shade_natural_color(l, scene),
                         reflect |-> call(get_surface(l.thing).reflect, l.pos)])
                /\ ray_' = ray(l.pos, l.reflect_dir)
                /\ depth' = depth + 1
                /\ pc' = "trace_ray"
                /\ UNCHANGED retval
           ELSE /\ retval' = cadd(shade_natural_color(l, scene), grey)
                /\ pc' = "return"
                /\ UNCHANGED <<stack, ray_, depth>>
    /\ UNCHANGED <<surface_vars, xform_vars, light_vars>>
    /\ UNCHANGED <<HAVE_CONSTEXPR_STD_MATH, scene, canvas, width, height, x, y, isect,
                   calls>>

\* the return of trace_ray(.., depth) into the shade frame that called it:
\* scale(reflect(pos), ..) in get_reflection_color, natural_color + .. in shade
Return ==
    /\ pc = "return"
    /\ stack # <<>>
    /\ retval' = cadd(stack[Len(stack)].natural_color,
                      cscale(stack[Len(stack)].reflect, retval))
    /\ stack' = SubSeq(stack, 1, Len(stack) - 1)
    /\ depth' = depth - 1
    /\ UNCHANGED <<surface_vars, xform_vars, light_vars>>
    /\ UNCHANGED <<HAVE_CONSTEXPR_STD_MATH, scene, canvas, width, height, x, y, pc, ray_,
                   isect, calls>>

\* the two loops of render in the other order: x outside, y inside
SetPixel_column_major ==
    /\ pc = "return"
    /\ stack = <<>>
    /\ canvas' = set_pixel(canvas, x, y, retval)
    /\ calls' = Append(calls, <<x, y, retval>>)
    /\ IF y + 1 < height
       THEN x' = x /\ y' = y + 1
       ELSE x' = x + 1 /\ y' = IF x + 1 < width THEN 0 ELSE height
    /\ pc' = "render"
    /\ UNCHANGED <<surface_vars, xform_vars, light_vars>>
    /\ UNCHANGED <<HAVE_CONSTEXPR_STD_MATH, scene, width, height, ray_, depth, isect,
                   stack, retval>>

\* render: trace_ray(.., 0) has returned; canvas.set_pixel(x, y, color) and
\* the increments of the two loops
SetPixel ==
    /\ pc = "return"
    /\ stack = <<>>
    /\ canvas' = set_pixel(canvas, x, y, retval)
    /\ calls' = Append(calls, <<x, y, retval>>)
    /\ IF x + 1 < width
       THEN x' = x + 1 /\ y' = y
       ELSE x' = 0 /\ y' = y + 1
    /\ pc' = "render"
    /\ UNCHANGED <<surface_vars, xform_vars, light_vars>>
    /\ UNCHANGED <<HAVE_CONSTEXPR_STD_MATH, scene, width, height, ray_, depth, isect,
                   stack, retval>>

NextRender == Render \/ TraceRay \/ Shade \/ Return \/ SetPixel

SpecRender == InitRender /\ [][NextRender]_vars

(***************************************************************************)
(* render, trace_ray and shade                                             *)
(***************************************************************************)
\* render: the colour trace_ray returns for the pixel (px, py)
pixel_color(px, py) ==
    trace_ray(ray(scene.cam.pos, get_point(width, height, px, py, scene.cam)), scene, 0)

\* C1: render calls canvas.set_pixel exactly once for every cell (x, y) with
\* 0 <= x < width and 0 <= y < height and for no other cell, in row-major
\* order, and each call carries the colour trace_ray computes for the pixel.
C1_RenderRowMajor ==
    /\ Len(calls) <= width * height
    /\ \A k \in 1..Len(calls) :
          /\ calls[k][1] = (k - 1) % width
          /\ calls[k][2] = (k - 1) \div width
          /\ in_range(canvas, calls[k][1], calls[k][2])
    /\ (pc = "done" => Len(calls) = width * height)
    /\ (pc = "render" /\ calls # <<>> =>
           calls[Len(calls)][3] =
               pixel_color(calls[Len(calls)][1], calls[Len(calls)][2]))

\* render has returned from an image of more than one row and one column
C1_Witness ==
    /\ pc = "done"
    /\ scene = sdl_scene
    /\ width = MaxWidth
    /\ height = MaxHeight
    /\ Len(calls) = MaxWidth * MaxHeight
    /\ \E k \in 1..Len(calls) : calls[k][3] # black

\* the depth of the calls in progress: trace_ray and shade run at a depth in
\* 0..max_depth with one waiting shade frame for each bounce, and the shade
\* that ran at max_depth returned natural_color + grey without a call
C2_DepthInv ==
    /\ depth \in 0..max_depth
    /\ Len(stack) <= max_depth
    /\ (pc \in {"trace_ray", "shade", "return"} => Len(stack) = depth)
    /\ (pc = "return" /\ depth = max_depth =>
           retval = cadd(shade_natural_color(shade_locals(isect, scene), scene), grey))

\* the number of steps render can still take: for each cell not yet written
\* the steps of one pixel, and within a pixel two steps for each depth left
\* below max_depth on the way down and one for each frame on the way up
C2_Rank ==
    (width * height - Len(calls)) * (3 * max_depth + 5)
    + CASE pc = "render" -> 3 * max_depth + 4
        [] pc = "trace_ray" -> 2 * (max_depth - depth) + 1 + (max_depth + 2)
        [] pc = "shade" -> 2 * (max_depth - depth) + (max_depth + 2)
        [] pc = "return" -> Len(stack) + 1
        [] pc = "done" -> 0

C11_SceneUnchanged ==
    /\ [][scene' = scene]_vars
    /\ [](pc \in {"render", "done"} /\ calls # <<>> => depth = 0 /\ stack = <<>>)

\* render has returned after pixels that hit a thing in transformed mode
\* and went through reflections
C11_Witness ==
    /\ pc = "done"
    /\ scene = mixed_scene
    /\ Len(calls) = MaxWidth * MaxHeight
    /\ \E k \in 1..Len(calls) : calls[k][3] # black

(***************************************************************************)
(* render with the pixels taken in any order                               *)
(***************************************************************************)
MaxPixels == 4

\* the images of at most MaxPixels pixels
InitOrder ==
    /\ HAVE_CONSTEXPR_STD_MATH \in BOOLEAN
    /\ scene \in {sdl_scene, mixed_scene}
    /\ width \in 1..MaxPixels
    /\ height \in 1..MaxPixels
    /\ width * height <= MaxPixels
    /\ canvas = sdl_canvas(width, height)
    /\ x = 0
    /\ y = 0
    /\ depth = 0
    /\ stack = <<>>
    /\ calls = <<>>
    /\ pc = "render"
    /\ ray_ = no_ray
    /\ isect = nullopt
    /\ retval = black
    /\ IdleSurface /\ IdleXform /\ IdleLight

\* the cells set_pixel was called for
Written == {<<calls[k][1], calls[k][2]>> : k \in 1..Len(calls)}

\* the body of render's loops for a pixel that starts from the ray the
\* tracer traced last instead of the camera
RenderAnyPixel_keeps_ray ==
    /\ pc = "render"
    /\ IF Len(calls) < width * height
       THEN /\ \E px \in 0..(MaxPixels + 1), py \in 0..(MaxPixels + 1) :
                  /\ px < width
                  /\ py < height
                  /\ <<px, py>> \notin Written
                  /\ x' = px
                  /\ y' = py
                  /\ ray_' = ray(IF calls = <<>> THEN scene.cam.pos ELSE ray_.start,
                                 get_point(width, height, px, py, scene.cam))
            /\ pc' = "trace_ray"
            /\ depth' = 0
       ELSE /\ pc' = "done"
            /\ UNCHANGED <<ray_, depth, x, y>>
    /\ UNCHANGED <<surface_vars, xform_vars, light_vars>>
    /\ UNCHANGED <<HAVE_CONSTEXPR_STD_MATH, scene, canvas, width, height, isect,
                   stack, retval, calls>>

\* the body of render's loops for any pixel (px, py) of the image that has
\* not been rendered: the call trace_ray({cam.pos, point}, scene, 0)
RenderAnyPixel ==
    /\ pc = "render"
    /\ IF Len(calls) < width * height
       THEN /\ \E px \in 0..(MaxPixels + 1), py \in 0..(MaxPixels + 1) :
                  /\ px < width
                  /\ py < height
                  /\ <<px, py>> \notin Written
                  /\ x' = px
                  /\ y' = py
                  /\ ray_' = ray(scene.cam.pos,
                                 get_point(width, height, px, py, scene.cam))
            /\ pc' = "trace_ray"
            /\ depth' = 0
       ELSE /\ pc' = "done"
            /\ UNCHANGED <<ray_, depth, x, y>>
    /\ UNCHANGED <<surface_vars, xform_vars, light_vars>>
    /\ UNCHANGED <<HAVE_CONSTEXPR_STD_MATH, scene, canvas, width, height, isect,
                   stack, retval, calls>>

\* trace_ray(.., 0) has returned for the pixel: canvas.set_pixel(x, y, color)
SetAnyPixel ==
    /\ pc = "return"
    /\ stack = <<>>
    /\ canvas' = set_pixel(canvas, x, y, retval)
    /\ calls' = Append(calls, <<x, y, retval>>)
    /\ pc' = "render"
    /\ UNCHANGED <<surface_vars, xform_vars, light_vars>>
    /\ UNCHANGED <<HAVE_CONSTEXPR_STD_MATH, scene, width, height, x, y, ray_, depth,
                   isect, stack, retval>>

NextOrder == RenderAnyPixel \/ TraceRay \/ Shade \/ Return \/ SetAnyPixel

SpecOrder == InitOrder /\ [][NextOrder]_vars

\* the calls of set_pixel that the sequential row-major render makes for
\* its first k pixels
RECURSIVE sequential_calls(_)
sequential_calls(k) ==
    IF k = 0 THEN <<>>
    ELSE Append(sequential_calls(k - 1),
                <<(k - 1) % width, (k - 1) \div width,
                  pixel_color((k - 1) % width, (k - 1) \div width)>>)

\* the canvas after the first k calls of a sequence of calls
RECURSIVE canvas_after(_, _)
canvas_after(cs, k) ==
    IF k = 0 THEN sdl_canvas(width, height)
    ELSE set_pixel(canvas_after(cs, k - 1), cs[k][1], cs[k][2], cs[k][3])

\* C12: the colour of a pixel is a function of the scene, the image size and
\* the pixel alone: with the pixels rendered in any order, the pixel just
\* rendered has the colour the sequential row-major render gives it, every
\* cell written so far holds what its call wrote and the other cells are
\* untouched, and the finished canvas equals the sequential one.
C12_OrderIndependent ==
    /\ (pc = "render" /\ calls # <<>> =>
           calls[Len(calls)][3] =
               pixel_color(calls[Len(calls)][1], calls[Len(calls)][2]))
    /\ \A k \in 1..Len(calls) :
          canvas.pixels_[calls[k][2] * width + calls[k][1] + 1]
              = set_pixel(sdl_canvas(width, height), calls[k][1], calls[k][2],
                          calls[k][3]).pixels_[calls[k][2] * width + calls[k][1] + 1]
    /\ \A px \in 0..(width - 1), py \in 0..(height - 1) :
          <<px, py>> \notin Written =>
              canvas.pixels_[py * width + px + 1]
                  = sdl_canvas(width, height).pixels_[py * width + px + 1]
    /\ (pc = "done" =>
           canvas = canvas_after(sequential_calls(width * height), width * height))

\* an image of two rows and two columns rendered last pixel first
C12_Witness ==
    /\ pc = "done"
    /\ scene = sdl_scene
    /\ width = 2
    /\ height = 2
    /\ Len(calls) = 4
    /\ calls[1][1] = 1 /\ calls[1][2] = 1
    /\ calls[4][1] = 0 /\ calls[4][2] = 0
    /\ \E k \in 1..4 : \E j \in 1..4 : calls[k][3] # calls[j][3]

(***************************************************************************)
(* main: the render thread and the event loop of the main thread           *)
(***************************************************************************)
\* main after std::thread render_thread(..) was constructed: pc holds the
\* position of each thread, retval the texture of the window, isect the
\* pixels SDL_UpdateTexture has copied and stack the cells stored into
\* while it copies
InitThreads ==
    /\ HAVE_CONSTEXPR_STD_MATH = TRUE
    /\ scene = mixed_scene
    /\ width \in 1..MaxPixels
    /\ height \in 1..MaxPixels
    /\ width * height <= MaxPixels
    /\ canvas = sdl_canvas(width, height)
    /\ x = 0
    /\ y = 0
    /\ depth = 0
    /\ calls = <<>>
    /\ stack = {}
    /\ pc = [render_thread |-> "render", main |-> "loop"]
    /\ ray_ = no_ray
    /\ isect = sdl_canvas(width, height).pixels_
    /\ retval = sdl_canvas(width, height).pixels_
    /\ IdleSurface /\ IdleXform /\ IdleLight

\* the cell set_pixel(x, y, ..) stores into
storing == IF pc.render_thread = "set_pixel" THEN {x + width * y + 1} ELSE {}

\* render_thread: render's loop test, trace_ray for the pixel (x, y), and
\* set_pixel up to its store into pixels_
ThreadRender ==
    /\ pc.render_thread = "render"
    /\ pc' = [pc EXCEPT !.render_thread = IF y < height THEN "set_pixel" ELSE "done"]
    /\ stack' = IF pc.main = "SDL_UpdateTexture" /\ y < height
                THEN stack \cup {x + width * y + 1} ELSE stack
    /\ UNCHANGED <<surface_vars, xform_vars, light_vars>>
    /\ UNCHANGED <<HAVE_CONSTEXPR_STD_MATH, scene, ray_, isect, retval, canvas, width,
                   height, x, y, depth, calls>>

\* render_thread: the store pixels_[x + width_ * y] = .. of set_pixel is
\* complete, and the increments of render's loops
ThreadSetPixel ==
    /\ pc.render_thread = "set_pixel"
    /\ \E color_ \in {pixel_color(x, y)} : canvas' = set_pixel(canvas, x, y, color_)
    /\ IF x + 1 < width
       THEN x' = x + 1 /\ y' = y
       ELSE x' = 0 /\ y' = y + 1
    /\ pc' = [pc EXCEPT !.render_thread = "render"]
    /\ UNCHANGED <<surface_vars, xform_vars, light_vars>>
    /\ UNCHANGED <<HAVE_CONSTEXPR_STD_MATH, scene, ray_, isect, retval, width, height,
                   depth, stack, calls>>

\* main: the event loop calls sdl_renderer.render(canvas.get_pixels());
\* SDL_UpdateTexture starts to copy pixels_
MainRender ==
    /\ pc.main = "loop"
    /\ pc' = [pc EXCEPT !.main = "SDL_UpdateTexture"]
    /\ isect' = canvas.pixels_
    /\ stack' = storing
    /\ UNCHANGED <<surface_vars, xform_vars, light_vars>>
    /\ UNCHANGED <<HAVE_CONSTEXPR_STD_MATH, scene, ray_, retval, canvas, width, height,
                   x, y, depth, calls>>

\* main: SDL_UpdateTexture has copied pixels_. A cell that set_pixel stored
\* into meanwhile was read without synchronisation: the copy holds its old
\* value, its new value or an indeterminate one
MainUpdateTexture ==
    /\ pc.main = "SDL_UpdateTexture"
    /\ \E seen \in [stack -> {"old", "new", "indeterminate"}] :
             retval' = [i \in 1..(width * height) |->
                            IF i \notin stack \/ seen[i] = "old" THEN isect[i]
                            ELSE IF seen[i] = "new" /\ i \notin storing
                            THEN canvas.pixels_[i]
                            ELSE <<"indeterminate">>]
    /\ pc' = [pc EXCEPT !.main = "loop"]
    /\ stack' = {}
    /\ UNCHANGED <<surface_vars, xform_vars, light_vars>>
    /\ UNCHANGED <<HAVE_CONSTEXPR_STD_MATH, scene, ray_, isect, canvas, width, height,
                   x, y, depth, calls>>

\* main: the event loop has ended, render_thread.join() has returned and
\* the final sdl_renderer.render(canvas.get_pixels()) has copied pixels_
MainJoin ==
    /\ pc.main = "loop"
    /\ pc.render_thread = "done"
    /\ pc' = [pc EXCEPT !.main = "joined"]
    /\ retval' = canvas.pixels_
    /\ UNCHANGED <<surface_vars, xform_vars, light_vars>>
    /\ UNCHANGED <<HAVE_CONSTEXPR_STD_MATH, scene, ray_, isect, canvas, width, height,
                   x, y, depth, stack, calls>>

NextThreads ==
    ThreadRender \/ ThreadSetPixel \/ MainRender \/ MainUpdateTexture \/ MainJoin

SpecThreads == InitThreads /\ [][NextThreads]_vars

\* C13: while render runs the canvas is write-only: no thread reads the
\* pixel buffer while the render thread is still calling set_pixel; the
\* buffer is read only after render has returned.
C13_CanvasWriteOnly ==
    pc.main = "SDL_UpdateTexture" => pc.render_thread = "done"

\* the window shows a cell that was read while set_pixel stored into it
C13_Witness ==
    /\ pc.main = "loop"
    /\ pc.render_thread # "done"
    /\ \E i \in 1..(width * height) : retval[i] = <<"indeterminate">>

(***************************************************************************)
(* sdl_canvas::set_pixel called with any coordinates around the canvas     *)
(***************************************************************************)
MaxCalls == 2

\* colours inside and outside the range 0..1 of a component
CanvasColors == {white, color(Two, Q(-1, 2), Q(1, 2))}

InitCanvas ==
    /\ HAVE_CONSTEXPR_STD_MATH = TRUE
    /\ IdleScene
    /\ InitRenderVars
    /\ pc = "canvas"
    /\ retval = black
    /\ IdleSurface /\ IdleXform /\ IdleLight

\* one call canvas.set_pixel(px, py, color)
CanvasSetPixel(px, py, color_) ==
    /\ pc \in {"canvas", "set_pixel"}
    /\ Len(calls) < MaxCalls
    /\ canvas' = set_pixel(canvas, px, py, color_)
    /\ x' = px
    /\ y' = py
    /\ retval' = color_
    /\ calls' = Append(calls, <<px, py, color_>>)
    /\ pc' = "set_pixel"
    /\ UNCHANGED <<surface_vars, xform_vars, light_vars>>
    /\ UNCHANGED <<HAVE_CONSTEXPR_STD_MATH, scene_vars, width, height, depth, stack>>

NextCanvas ==
    \E px \in -1..width, py \in -1..height, color_ \in CanvasColors : CanvasSetPixel(px, py, color_)

SpecCanvas == InitCanvas /\ [][NextCanvas]_vars

\* C10: set_pixel(x, y, color) with x or y outside 0 <= x < width,
\* 0 <= y < height leaves every cell of the pixel buffer unchanged, and an
\* in-range call changes the cell at index x + width * y and no other cell.
C10_SetPixelFrame ==
    [][pc' = "set_pixel" =>
          /\ DOMAIN canvas'.pixels_ = DOMAIN canvas.pixels_
          /\ IF 0 <= x' /\ x' < width /\ 0 <= y' /\ y' < height
             THEN /\ canvas'.pixels_[x' + width * y' + 1] =
                         <<to_uint8(retval'.r), to_uint8(retval'.g), to_uint8(retval'.b), 255>>
                  /\ \A i \in DOMAIN canvas.pixels_ :
                         i # x' + width * y' + 1 => canvas'.pixels_[i] = canvas.pixels_[i]
             ELSE canvas'.pixels_ = canvas.pixels_]_vars

\* an out-of-range call and then an in-range call that changed its cell
C10_Witness ==
    /\ pc = "set_pixel"
    /\ Len(calls) = 2
    /\ ~(0 <= calls[1][1] /\ calls[1][1] < width /\ 0 <= calls[1][2] /\ calls[1][2] < height)
    /\ 0 <= x /\ x < width /\ 0 <= y /\ y < height
    /\ width > 1 /\ height > 1
    /\ canvas.pixels_[x + width * y + 1] = <<255, 0, 127, 255>>
    /\ \A i \in DOMAIN canvas.pixels_ : i # x + width * y + 1 => canvas.pixels_[i] = <<0, 0, 0, 0>>

(***************************************************************************)
(* The checkerboard surface called at the points of a grid                 *)
(***************************************************************************)
MaxCoord == 2

\* the points (i/2, 0, j/2) with |i/2| <= MaxCoord and |j/2| <= MaxCoord
CheckerPoints ==
    {vec3(Q(i, 2), Zero, Q(j, 2)) : i, j \in (-2 * MaxCoord)..(2 * MaxCoord)}

InitChecker ==
    /\ HAVE_CONSTEXPR_STD_MATH \in BOOLEAN
    /\ IdleScene /\ IdleRender /\ IdleXform /\ IdleLight
    /\ pc = "surface"
    /\ retval = black
    /\ pos \in CheckerPoints
    /\ refl = Zero

\* surf.diffuse(pos) on the checkerboard surface
CheckerboardDiffuse ==
    /\ pc = "surface"
    /\ retval' = call(checkerboard.diffuse, pos)
    /\ pc' = "diffuse"
    /\ UNCHANGED <<HAVE_CONSTEXPR_STD_MATH, scene_vars, render_vars, pos, refl, xform_vars,
                   light_vars>>

\* surf.reflect(pos) on the checkerboard surface
CheckerboardReflect ==
    /\ pc = "diffuse"
    /\ refl' = call(checkerboard.reflect, pos)
    /\ pc' = "reflect"
    /\ UNCHANGED <<HAVE_CONSTEXPR_STD_MATH, scene_vars, render_vars, pos, retval, xform_vars,
                   light_vars>>

NextChecker == CheckerboardDiffuse \/ CheckerboardReflect

SpecChecker == InitChecker /\ [][NextChecker]_vars

\* C9: checkerboard_diffuse returns black where floor(x) + floor(z) is even
\* and white where it is odd, for negative coordinates too, and
\* checkerboard_reflect is keyed by the same parity and returns a
\* reflectivity within 0..1.
C9_CheckerboardParity ==
    LET even == ((pos.x[1] \div pos.x[2]) + (pos.z[1] \div pos.z[2])) % 2 = 0
    IN  /\ (pc \in {"diffuse", "reflect"} => retval = IF even THEN black ELSE white)
        /\ (pc = "reflect" =>
               /\ refl = IF even THEN Q(7, 10) ELSE Q(1, 10)
               /\ le(Zero, refl)
               /\ le(refl, One))

\* the build that takes the cast for cmath::floor, at x = -1: floor(-1) +
\* floor(1/2) = -1 is odd and the colour returned is black
C9_Witness ==
    /\ ~HAVE_CONSTEXPR_STD_MATH
    /\ pc = "diffuse"
    /\ pos = vec3(I(-1), Zero, Q(1, 2))
    /\ retval = black

(***************************************************************************)
(* Transforms: a transform is built from the factories by compose, then a  *)
(* point and a vector are taken through it and back.                       *)
(***************************************************************************)
MaxCompose == 1

\* the angles of rotate_y as <<cos, sin>>: atan(4/3) and a quarter turn
Angles == {<<Q(3, 5), Q(4, 5)>>, <<Zero, One>>}

Factories ==
    {translate(I(1), I(-2), I(3)),
     transform_scale(I(2), Q(1, 2), I(-1))}
    \cup {rotate_y(radians) : radians \in Angles}

Operands == Factories \cup {compose(f, g) : f \in Factories, g \in Factories}

XformPoints == {V(0, 0, 0), V(1, 0, 0), V(0, 0, 1), V(2, -1, 3)}

\* the largest denominator of the entries of a matrix
Den(a) == CHOOSE d \in {a[i][2] : i \in DOMAIN a} : \A i \in DOMAIN a : a[i][2] <= d

\* the products of point and inv_point on T are exact in real_t
Exact(T) == Den(T.m) * Den(T.inv) <= MaxDen

InitXform ==
    /\ HAVE_CONSTEXPR_STD_MATH = TRUE
    /\ IdleScene /\ IdleRender /\ IdleLight
    /\ pc = "transform"
    /\ retval = black
    /\ first \in Factories
    /\ composed = 0
    /\ pos \in XformPoints
    /\ back = pos
    /\ refl = Zero

\* first = compose(first, second)
ComposeAfter(second) ==
    /\ pc = "transform"
    /\ composed < MaxCompose
    /\ Exact(compose(first, second))
    /\ first' = compose(first, second)
    /\ composed' = composed + 1
    /\ UNCHANGED <<HAVE_CONSTEXPR_STD_MATH, scene_vars, render_vars, surface_vars, light_vars,
                   pc, retval, back>>

\* first = compose(second, first)
ComposeBefore(second) ==
    /\ pc = "transform"
    /\ composed < MaxCompose
    /\ Exact(compose(second, first))
    /\ first' = compose(second, first)
    /\ composed' = composed + 1
    /\ UNCHANGED <<HAVE_CONSTEXPR_STD_MATH, scene_vars, render_vars, surface_vars, light_vars,
                   pc, retval, back>>

\* back = first.inv_point(first.point(pos))
RoundTripPoint ==
    /\ pc = "transform"
    /\ back' = inv_point(first, point(first, pos))
    /\ pc' = "point"
    /\ UNCHANGED <<HAVE_CONSTEXPR_STD_MATH, scene_vars, render_vars, surface_vars, light_vars,
                   retval, first, composed>>

\* back = first.inv_vector(first.vector(pos))
RoundTripVector ==
    /\ pc = "transform"
    /\ back' = inv_vector(first, vector(first, pos))
    /\ pc' = "vector"
    /\ UNCHANGED <<HAVE_CONSTEXPR_STD_MATH, scene_vars, render_vars, surface_vars, light_vars,
                   retval, first, composed>>

\* back = first.normal(pos)
Normal ==
    /\ pc = "transform"
    /\ back' = normal(first, pos)
    /\ pc' = "normal"
    /\ UNCHANGED <<HAVE_CONSTEXPR_STD_MATH, scene_vars, render_vars, surface_vars, light_vars,
                   retval, first, composed>>

NextXform ==
    \/ \E second \in Operands : ComposeAfter(second)
    \/ \E second \in Operands : ComposeBefore(second)
    \/ RoundTripPoint
    \/ RoundTripVector
    \/ Normal

SpecXform == InitXform /\ [][NextXform]_vars

MatMul(a, b) ==
    [i \in 1..16 |->
        LET r == (i - 1) \div 4
            c == (i - 1) % 4
            t == [k \in 0..3 |-> mul(At(a, r * 4 + k), At(b, k * 4 + c))]
        IN  Accum(t, 4)]

\* the entries of two matrices are equal as real_t
MatEq(a, b) == DOMAIN a = DOMAIN b /\ \A i \in DOMAIN a : eq(a[i], b[i])

\* T.inv_t is the transpose of the upper-left 3x3 block of T.inv
InvTransposed(T) ==
    \A r \in 0..2, c \in 0..2 :
        eq(At(T.inv_t, r * 3 + c), At(T.inv, c * 4 + r))

\* result is what the composition of a followed by b has to be
Composition(a, b, result) ==
    /\ MatEq(result.m, MatMul(b.m, a.m))
    /\ MatEq(result.inv, MatMul(a.inv, b.inv))
    /\ InvTransposed(result)

\* C14: compose(first, second) has the forward matrix second.m * first.m,
\* the inverse first.inv * second.inv and as inv_t the transpose of the
\* upper-left 3x3 block of that composed inverse, also when the operands do
\* not commute.
C14_ComposeMatrices ==
    [][composed' = composed + 1 =>
          \A second \in Operands :
              /\ first' = compose(first, second) => Composition(first, second, first')
              /\ first' = compose(second, first) => Composition(second, first, first')]_vars

\* a non-uniform scale composed with a rotation about y: forward matrix and
\* inverse are the products, inv_t is not the transpose of the inverse
C14_Witness ==
    /\ composed = 1
    /\ first = compose(transform_scale(I(2), Q(1, 2), I(-1)), rotate_y(<<Q(3, 5), Q(4, 5)>>))
    /\ MatEq(first.inv, MatMul(transform_scale(I(2), Q(1, 2), I(-1)).inv,
                               rotate_y(<<Q(3, 5), Q(4, 5)>>).inv))
    /\ ~InvTransposed(first)

\* C15: the transforms made by translate, scale and rotate_y store as inv_t
\* the transpose of the upper-left 3x3 block of their inverse, and the
\* normal of a rotation about y is the forward rotation of the vector.
C15_FactoryInverseTranspose ==
    pc = "normal" /\ composed = 0 =>
        /\ InvTransposed(first)
        /\ \A radians \in Angles :
               first = rotate_y(radians) /\ ~veq(pos, V(0, 0, 0)) =>
                   veq(back, norm(vector(first, pos)))

\* the normal (1, 0, 0) under the quarter turn about y: the forward rotation
\* gives (0, 0, -1), normal gives (0, 0, 1)
C15_Witness ==
    /\ pc = "normal"
    /\ composed = 0
    /\ first = rotate_y(<<Zero, One>>)
    /\ pos = V(1, 0, 0)
    /\ veq(vector(first, pos), V(0, 0, -1))
    /\ veq(back, V(0, 0, 1))

(***************************************************************************)
(* Intersections: one ray against one thing of a scene (any_thing::        *)
(* intersect) and against the whole scene (get_intersections).             *)
(***************************************************************************)
MaxStart == 2

things_scene(things) == [no_scene EXCEPT !.things = things]

\* the same shape built in transformed mode and in direct mode: the unit
\* sphere scaled by 2 and moved to (0, 1, 0) beside the sphere of radius 2
\* at (0, 1, 0), and the plane y = 0 under the identity beside the plane of
\* normal (0, 1, 0) and offset 0
PairScenes ==
    {things_scene(<<make_transformed_sphere(shiny,
                        compose(transform_scale(Two, Two, Two),
                                translate(Zero, One, Zero))),
                    make_sphere(V(0, 1, 0), Two, shiny)>>),
     things_scene(<<make_transformed_plane(shiny, identity),
                    make_plane(V(0, 1, 0), Zero, shiny)>>)}

IsectScenes ==
    PairScenes \cup
    {things_scene(<<make_sphere(V(0, 0, 0), One, shiny)>>),
     things_scene(<<make_sphere(V(0, 0, -2), Two, shiny)>>),
     things_scene(<<make_plane(V(0, 1, 0), Zero, shiny)>>),
     things_scene(<<make_transformed_plane(shiny, translate(Zero, I(-1), Zero))>>),
     things_scene(<<make_transformed_sphere(shiny, transform_scale(Two, Two, Two))>>),
     things_scene(<<make_transformed_sphere(shiny,
                        compose(transform_scale(Two, One, Q(1, 2)),
                                translate(Zero, One, Zero)))>>),
     things_scene(<<make_plane(V(0, 1, 0), Zero, shiny),
                    make_sphere(V(0, -3, 0), One, shiny)>>),
     things_scene(<<make_sphere(V(0, 0, 0), One, shiny),
                    make_sphere(V(0, 0, 0), One, checkerboard)>>),
     things_scene(<<make_plane(V(0, 1, 0), Zero, shiny),
                    make_plane(V(0, 1, 0), One, checkerboard)>>),
     things_scene(sdl_scene.things)}

IsectStarts == {V(0, j, k) : j, k \in (-MaxStart)..MaxStart} \cup {V(0, 0, 5)}

IsectDirs ==
    {V(0, 1, 0), V(0, -1, 0), V(0, 0, 1), V(0, 0, -1),
     vec3(Zero, Q(3, 5), Q(4, 5)), vec3(Zero, Q(-4, 5), Q(-3, 5))}

InitIsect ==
    /\ HAVE_CONSTEXPR_STD_MATH = TRUE
    /\ IdleRender /\ IdleSurface /\ IdleXform
    /\ pc = "ray"
    /\ retval = black
    /\ scene \in IsectScenes
    /\ ray_ \in {ray(start, dir) : start \in IsectStarts, dir \in IsectDirs}
    /\ isect = nullopt
    /\ IdleLight

\* isect = scene.things[i].intersect(ray_)
Intersect(i) ==
    /\ pc = "ray"
    /\ i \in DOMAIN scene.things
    /\ isect' = any_thing_intersect(scene.things, i, ray_)
    /\ this_' = i
    /\ pc' = "intersect"
    /\ UNCHANGED <<HAVE_CONSTEXPR_STD_MATH, scene, ray_, render_vars, surface_vars, xform_vars,
                   retval, li, col, occluder>>

\* isect = get_intersections(ray_, scene)
GetIntersections ==
    /\ pc = "ray"
    /\ isect' = get_intersections(ray_, scene)
    /\ pc' = "get_intersections"
    /\ UNCHANGED <<HAVE_CONSTEXPR_STD_MATH, scene, ray_, render_vars, surface_vars, xform_vars,
                   retval, light_vars>>

NextIsect ==
    \/ \E i \in DOMAIN sdl_scene.things : Intersect(i)
    \/ GetIntersections

SpecIsect == InitIsect /\ [][NextIsect]_vars

\* C4: get_intersections returns the intersection with the least of the
\* non-negative hit distances of the things of the scene, and none when no
\* thing is hit; it returns no negative distance when some thing is hit at a
\* non-negative distance.
C4_ClosestNonNegative ==
    pc = "get_intersections" =>
        LET hit(i) == any_thing_intersect(scene.things, i, ray_)
            ahead == {i \in 1..Len(scene.things) : hit(i).has /\ ge(hit(i).dist, Zero)}
        IN  /\ (\A i \in 1..Len(scene.things) : ~hit(i).has) => ~isect.has
            /\ ahead # {} =>
                  /\ isect.has
                  /\ ge(isect.dist, Zero)
                  /\ isect.thing_ \in ahead
                  /\ \A i \in ahead : le(isect.dist, hit(i).dist)

\* the sphere is ahead of the ray and the plane behind it
C4_Witness ==
    /\ pc = "get_intersections"
    /\ Len(scene.things) = 2
    /\ ray_ = ray(V(0, -1, 0), V(0, -1, 0))
    /\ any_thing_intersect(scene.things, 2, ray_).has
    /\ any_thing_intersect(scene.things, 2, ray_).dist = One
    /\ isect.has
    /\ isect.thing_ = 1
    /\ isect.dist = I(-1)

\* C5: every intersection that a thing's intersect returns, and so every
\* intersection of get_intersections, has a distance that is strictly
\* positive.
C5_PositiveDistance ==
    pc \in {"intersect", "get_intersections"} /\ isect.has => gt(isect.dist, Zero)

\* a plane in direct mode reports a hit behind the start of the ray
C5_Witness ==
    /\ pc = "intersect"
    /\ scene.things[this_].kind = "plane"
    /\ ~scene.things[this_].use_transform
    /\ isect.has
    /\ lt(isect.dist, Zero)
    /\ IsFinite(isect.dist)

\* C6: a ray whose direction is parallel to a plane (dot(normal, dir) == 0)
\* gets no hit from the plane's intersect, in direct and in transformed
\* mode.
C6_ParallelMisses ==
    /\ pc = "intersect"
    /\ scene.things[this_].kind = "plane"
    /\ eq(dot(plane_get_normal(scene.things[this_], ray_.start), ray_.dir), Zero)
    => ~isect.has

\* a plane in direct mode reports a hit for a parallel ray
C6_Witness ==
    /\ pc = "intersect"
    /\ scene.things[this_] = make_plane(V(0, 1, 0), Zero, shiny)
    /\ ray_ = ray(V(0, 1, 0), V(0, 0, 1))
    /\ isect.has
    /\ isect.dist = NegInf

\* C8: a sphere in direct mode, with eo = center - start and
\* v = dot(eo, dir), misses when v < 0, when
\* disc = r^2 - (dot(eo, eo) - v^2) < 0 and when v - sqrt(disc) < 0, and hits
\* at v - sqrt(disc) otherwise; the ray from (0,0,5) along (0,0,-1) hits the
\* unit sphere at the origin at distance 4, and a ray from distance 2r aimed
\* at the centre hits at distance r.
C8_SphereEntryPoint ==
    pc = "intersect" /\ scene.things[this_].kind = "sphere"
                     /\ ~scene.things[this_].use_transform =>
        LET s == scene.things[this_]
            eo == vsub(s.center, ray_.start)
            v == dot(eo, ray_.dir)
            disc == sub(mul(s.radius, s.radius), sub(dot(eo, eo), mul(v, v)))
        IN  /\ IF lt(v, Zero) \/ lt(disc, Zero) \/ lt(sub(v, sqrt(disc)), Zero)
               THEN ~isect.has
               ELSE /\ isect.has
                    /\ isect.thing_ = this_
                    /\ isect.ray_ = ray_
                    /\ eq(isect.dist, sub(v, sqrt(disc)))
            /\ s.center = V(0, 0, 0) /\ s.radius = One /\ ray_ = ray(V(0, 0, 5), V(0, 0, -1))
               => isect.has /\ isect.dist = I(4)
            /\ eq(mag(eo), mul(Two, s.radius)) /\ veq(ray_.dir, norm(eo))
               => isect.has /\ eq(isect.dist, s.radius)

\* the ray from (0,0,5) along (0,0,-1) has hit the unit sphere at 4
C8_Witness ==
    /\ pc = "intersect"
    /\ scene.things[this_] = make_sphere(V(0, 0, 0), One, shiny)
    /\ ray_ = ray(V(0, 0, 5), V(0, 0, -1))
    /\ isect.has
    /\ isect.dist = I(4)

\* the things ray_ hits at a distance that compares, the distance of each,
\* and those at the minimal distance
Hits ==
    {i \in DOMAIN scene.things :
        /\ any_thing_intersect(scene.things, i, ray_).has
        /\ ~IsNaN(any_thing_intersect(scene.things, i, ray_).dist)}
HitDist(i) == any_thing_intersect(scene.things, i, ray_).dist
Nearest == {i \in Hits : \A j \in Hits : le(HitDist(i), HitDist(j))}

\* C16: when two or more things are hit at exactly the same minimal
\* distance, get_intersections returns the first of them in scene order,
\* and thing_ of the result refers to that element of scene.things.
C16_TieFirstInOrder ==
    pc = "get_intersections" /\ Cardinality(Nearest) >= 2 =>
        /\ isect.has
        /\ isect.thing_ \in Nearest
        /\ \A j \in Nearest : isect.thing_ <= j
        /\ eq(isect.dist, HitDist(isect.thing_))

\* a level ray under two parallel planes: both report the distance +inf
\* and get_intersections returns nothing
C16_Witness ==
    /\ pc = "get_intersections"
    /\ Len(scene.things) = 2
    /\ Nearest = {1, 2}
    /\ HitDist(1) = PosInf
    /\ ~isect.has

\* the object-space ray of the thing this_ and the quadratic of the unit
\* sphere on it
ObjOrigin == inv_point(scene.things[this_].xform, ray_.start)
ObjDirUnnorm == inv_vector(scene.things[this_].xform, ray_.dir)
ScaleFactor == mag(ObjDirUnnorm)
ObjDir == scale(div(One, ScaleFactor), ObjDirUnnorm)
QuadA == dot(ObjDir, ObjDir)
QuadB == mul(Two, dot(ObjOrigin, ObjDir))
QuadC == sub(dot(ObjOrigin, ObjOrigin), One)
Discriminant == sub(mul(QuadB, QuadB), mul(mul(I(4), QuadA), QuadC))
Roots ==
    {div(sub(neg(QuadB), sqrt(Discriminant)), mul(Two, QuadA)),
     div(add(neg(QuadB), sqrt(Discriminant)), mul(Two, QuadA))}
RootsAboveEps == {t \in Roots : gt(t, EPS6)}

\* the world point of the hit taken to object space, and how far the
\* rounding of real_t in the coefficients of the quadratic may leave its
\* squared length from 1
HitInObjectSpace ==
    inv_point(scene.things[this_].xform, vadd(ray_.start, scale(isect.dist, ray_.dir)))
Tolerance == mul(Q(1, 64), add(One, fabs(QuadB)))

\* C19: a sphere in transformed mode returns as world distance the smallest
\* root above 1e-6 of the object-space quadratic divided by scale_factor,
\* and misses when the discriminant is negative or no root is above 1e-6;
\* the hit point start + dist * dir is taken by inv_point onto the unit
\* sphere.
C19_TransformedSphere ==
    pc = "intersect" /\ scene.things[this_].kind = "sphere"
        /\ scene.things[this_].use_transform =>
        IF lt(Discriminant, Zero) \/ RootsAboveEps = {}
        THEN ~isect.has
        ELSE /\ isect.has
             /\ \E t \in RootsAboveEps :
                    /\ \A u \in RootsAboveEps : le(t, u)
                    /\ isect.dist = div(t, ScaleFactor)
             /\ lt(fabs(sub(dot(HitInObjectSpace, HitInObjectSpace), One)), Tolerance)

\* the sphere scaled by 2, hit from outside: both roots are above 1e-6, the
\* smaller one is 3/2 in object space and the world distance is 3
C19_Witness ==
    /\ pc = "intersect"
    /\ scene.things[this_].kind = "sphere"
    /\ scene.things[this_].use_transform
    /\ ray_ = ray(V(0, 0, 5), V(0, 0, -1))
    /\ ScaleFactor = Q(1, 2)
    /\ Roots = {Q(3, 2), Q(7, 2)}
    /\ isect.has
    /\ isect.dist = I(3)
    /\ HitInObjectSpace = V(0, 0, 1)

\* what the other thing of a pair returns for the same ray
Twin == any_thing_intersect(scene.things, 3 - this_, ray_)

\* C20: a shape in transformed mode and the same shape in direct mode agree
\* for every ray on hit or miss and on the distance (within the rounding of
\* real_t): the sphere compose(scale(r, r, r), translate(c)) with the
\* sphere of centre c and radius r, and the plane under the identity with
\* the plane of normal (0, 1, 0) and offset 0, for rays that start inside
\* the sphere or below the plane as for the others.
C20_ModesAgree ==
    pc = "intersect" /\ scene \in PairScenes =>
        /\ isect.has = Twin.has
        /\ isect.has => lt(fabs(sub(isect.dist, Twin.dist)), Q(1, 32))

\* a ray that starts at the centre of the sphere: the transformed mode
\* returns the way out at distance 2, the direct mode returns a miss
C20_Witness ==
    /\ pc = "intersect"
    /\ scene \in PairScenes
    /\ scene.things[1].kind = "sphere"
    /\ this_ = 1
    /\ ray_ = ray(V(0, 1, 0), V(0, 0, 1))
    /\ isect.has
    /\ isect.dist = Two
    /\ ~Twin.has

(***************************************************************************)
(* Lights: the loop of get_natural_color at the point that a view ray      *)
(* hits, with an occluding sphere (the last thing of the scene) and again  *)
(* with that sphere taken out of the scene.                                *)
(***************************************************************************)
LightScenes ==
    {[no_scene EXCEPT
        !.things = <<make_plane(V(0, 1, 0), Zero, shiny),
                     make_sphere(V(0, 2, 0), Q(1, 2), shiny)>>,
        !.lights = <<light(V(0, 4, 0), white), light(V(0, 4, 3), white)>>],
     [no_scene EXCEPT
        !.things = <<make_plane(V(0, 1, 0), Zero, checkerboard),
                     make_sphere(vec3(Zero, Two, Q(3, 2)), Q(1, 2), shiny)>>,
        !.lights = <<light(V(0, 4, 3), white), light(V(0, 4, 0), white)>>],
     [no_scene EXCEPT
        !.things = <<make_plane(V(0, 1, 0), Zero, shiny),
                     make_sphere(V(0, 1, 0), One, shiny),
                     make_sphere(vec3(Q(3, 2), Q(18, 25), Q(74, 25)), Q(1, 2), shiny)>>,
        !.lights = <<light(vec3(I(3), Q(18, 25), Q(124, 25)), white),
                     light(V(0, 4, 3), white)>>],
     [no_scene EXCEPT
        !.things = <<make_plane(V(0, 1, 0), Zero,
                                surface(Fn("shiny_diffuse"), Fn("shiny_specular"),
                                        Fn("shiny_reflect"), 0)),
                     make_sphere(V(0, 2, 0), Q(1, 2), shiny)>>,
        !.lights = <<light(V(0, 4, 3), white), light(V(0, 4, 0), white)>>]}

LightRays ==
    {ray(start, dir) :
        start \in {V(0, 3, 4), V(0, 1, 4), V(1, 3, 4), V(0, 3, 0)},
        dir \in {vec3(Zero, Q(-3, 5), Q(-4, 5)), vec3(Zero, Q(-4, 5), Q(-3, 5)),
                 V(0, -1, 0), V(0, 1, 0)}}

InitLight ==
    /\ HAVE_CONSTEXPR_STD_MATH = TRUE
    /\ IdleRender /\ IdleSurface /\ IdleXform
    /\ pc = "trace_ray"
    /\ retval = black
    /\ scene \in LightScenes
    /\ ray_ \in LightRays
    /\ isect = nullopt
    /\ this_ = 0
    /\ li = 0
    /\ col = default_color
    /\ occluder = nullopt

\* trace_ray: the view ray hits a thing other than the occluding sphere
LightTraceRay ==
    /\ pc = "trace_ray"
    /\ get_intersections(ray_, scene).has
    /\ get_intersections(ray_, scene).thing_ # Len(scene.things)
    /\ isect' = get_intersections(ray_, scene)
    /\ pc' = "get_natural_color"
    /\ UNCHANGED <<HAVE_CONSTEXPR_STD_MATH, scene, ray_, render_vars, surface_vars, xform_vars,
                   retval, light_vars>>

\* one turn of the loop of get_natural_color: col = add_light(..., col, light)
AddLight ==
    /\ pc = "get_natural_color"
    /\ li < Len(scene.lights)
    /\ col' = add_light(shade_locals(isect, scene).thing, shade_locals(isect, scene).pos,
                        shade_locals(isect, scene).normal,
                        shade_locals(isect, scene).reflect_dir,
                        scene, col, scene.lights[li + 1])
    /\ li' = li + 1
    /\ UNCHANGED <<HAVE_CONSTEXPR_STD_MATH, scene_vars, render_vars, surface_vars, xform_vars,
                   pc, retval, this_, occluder>>

\* the occluding sphere leaves the scene and the loop starts again
RemoveOccluder ==
    /\ pc = "get_natural_color"
    /\ li = Len(scene.lights)
    /\ ~occluder.has
    /\ scene' = [scene EXCEPT !.things = SubSeq(@, 1, Len(@) - 1)]
    /\ occluder' = [has |-> TRUE, thing |-> scene.things[Len(scene.things)]]
    /\ li' = 0
    /\ col' = default_color
    /\ UNCHANGED <<HAVE_CONSTEXPR_STD_MATH, ray_, isect, render_vars, surface_vars, xform_vars,
                   pc, retval, this_>>

NextLight ==
    \/ LightTraceRay
    \/ AddLight
    \/ RemoveOccluder

SpecLight == InitLight /\ [][NextLight]_vars

\* C7: in add_light, a light with an opaque sphere between it and the shaded
\* point (the sphere is hit nearer than the light) returns the colour passed
\* in unchanged; with that sphere removed and dot(light_dir, normal) > 0 the
\* same light adds a strictly positive contribution.
C7_ShadowAndLight ==
    [][li' = li + 1 =>
        LET l == shade_locals(isect, scene)
            ldis == vsub(scene.lights[li + 1].pos, l.pos)
            between(s) == /\ sphere_intersect(s, ray(l.pos, norm(ldis))).has
                          /\ lt(sphere_intersect(s, ray(l.pos, norm(ldis))).dist, mag(ldis))
        IN  /\ ~occluder.has /\ between(scene.things[Len(scene.things)]) => col' = col
            /\ occluder.has /\ between(occluder.thing) /\ gt(dot(norm(ldis), l.normal), Zero)
               => /\ ge(col'.r, col.r) /\ ge(col'.g, col.g) /\ ge(col'.b, col.b)
                  /\ gt(col'.r, col.r) \/ gt(col'.g, col.g) \/ gt(col'.b, col.b)]_vars

\* the light that the removed sphere stood in front of, level with the
\* shaded point of the other sphere and facing it, has added nothing
C7_Witness ==
    /\ pc = "get_natural_color"
    /\ occluder.has
    /\ isect.thing_ = 2
    /\ scene.things[2].kind = "sphere"
    /\ li = 1
    /\ col = black
    /\ sphere_intersect(occluder.thing,
                        ray(shade_locals(isect, scene).pos,
                            norm(vsub(scene.lights[1].pos, shade_locals(isect, scene).pos)))).has
    /\ gt(dot(norm(vsub(scene.lights[1].pos, shade_locals(isect, scene).pos)),
              shade_locals(isect, scene).normal), Zero)

\* the shadow ray of add_light from the shaded point to the k-th light and
\* the distance of that light
ShadowRay(k) ==
    ray(shade_locals(isect, scene).pos,
        norm(vsub(scene.lights[k].pos, shade_locals(isect, scene).pos)))
LightDist(k) == mag(vsub(scene.lights[k].pos, shade_locals(isect, scene).pos))

\* add_light takes the point to be in the shadow of the k-th light
Suppressed(k) ==
    /\ test_ray(ShadowRay(k), scene).has
    /\ lt(test_ray(ShadowRay(k), scene).dist, LightDist(k))

\* some thing is hit by the shadow ray strictly between the point and the
\* k-th light
Between(k) ==
    \E i \in DOMAIN scene.things :
        /\ any_thing_intersect(scene.things, i, ShadowRay(k)).has
        /\ gt(any_thing_intersect(scene.things, i, ShadowRay(k)).dist, Zero)
        /\ lt(any_thing_intersect(scene.things, i, ShadowRay(k)).dist, LightDist(k))

\* C17: add_light suppresses a light for a point only when some thing lies
\* strictly between the point and the light on the shadow ray, at a
\* distance d with 0 < d < distance to the light; a thing behind the origin
\* of the shadow ray or beyond the light never shadows the point.
C17_ShadowOnlyBetween ==
    [][li' = li + 1 /\ Suppressed(li + 1) => col' = col /\ Between(li + 1)]_vars

\* a light was suppressed for a point of the sphere by the floor plane,
\* which the level shadow ray meets at the distance -inf
C17_Witness ==
    /\ pc = "get_natural_color"
    /\ li = 1
    /\ Suppressed(1)
    /\ ~Between(1)
    /\ test_ray(ShadowRay(1), scene).dist = NegInf
    /\ col = default_color

\* max(0, val) and the equality of two colours as real_t
Max0(val) == IF gt(val, Zero) THEN val ELSE Zero
ColorEq(c1, c2) == eq(c1.r, c2.r) /\ eq(c1.g, c2.g) /\ eq(c1.b, c2.b)

\* the diffuse term of the k-th light at the shaded point: the diffuse
\* colour times max(0, dot(light_dir, normal)) times the colour of the light
DiffuseTerm(k) ==
    cmul(call(get_surface(shade_locals(isect, scene).thing).diffuse,
              shade_locals(isect, scene).pos),
         cscale(Max0(dot(ShadowRay(k).dir, shade_locals(isect, scene).normal)),
                scene.lights[k].col))

\* its specular term: the specular colour times
\* max(0, dot(light_dir, normalize(reflect_dir))) to the power roughness
\* times the colour of the light
SpecularTerm(k) ==
    cmul(call(get_surface(shade_locals(isect, scene).thing).specular,
              shade_locals(isect, scene).pos),
         cscale(pow(Max0(dot(ShadowRay(k).dir,
                             norm(shade_locals(isect, scene).reflect_dir))),
                    get_surface(shade_locals(isect, scene).thing).roughness),
                scene.lights[k].col))

\* C18: for a light that is not in shadow and a surface of any roughness
\* >= 0, 0 included, add_light adds to the colour passed in the diffuse
\* term and the specular term of the light.
C18_DiffuseAndSpecular ==
    [][li' = li + 1 /\ ~Suppressed(li + 1) =>
          ColorEq(col', cadd(cadd(col, DiffuseTerm(li + 1)), SpecularTerm(li + 1)))]_vars

\* a surface of roughness 0 whose reflected direction is at a right angle
\* to the light: add_light has added the diffuse term alone
C18_Witness ==
    /\ pc = "get_natural_color"
    /\ li = 1
    /\ get_surface(shade_locals(isect, scene).thing).roughness = 0
    /\ ~Suppressed(1)
    /\ gt(dot(ShadowRay(1).dir, shade_locals(isect, scene).normal), Zero)
    /\ ~gt(dot(ShadowRay(1).dir, norm(shade_locals(isect, scene).reflect_dir)), Zero)
    /\ ColorEq(col, DiffuseTerm(1))
    /\ ~ColorEq(SpecularTerm(1), default_color)

====
